---- MODULE Spec2Model ----
(***************************************************************************)
(* Model of the cache service (dataset/cache/cache_service.py): the        *)
(* CacheSystem class (key derivation, bounded store, LRU/LFU/FIFO          *)
(* eviction, lazy TTL expiry), the process-wide stats dictionary and the   *)
(* /query and /clear handlers, run one after another (SpecService; /query  *)
(* alone in SpecRepeat) and at the same time (SpecConc); and of the upsert *)
(* of the storage service (dataset/storage/storage_service.py,             *)
(* SpecStorage; writes made at the same time in SpecWrites); and of the    *)
(* loop of the traffic generator (traffic_generator.py, SpecTraffic).      *)
(*                                                                         *)
(* Strings are sequences of one-character strings so that str.strip() and  *)
(* str.lower() are computed, not assumed.  time.time() is an integer clock *)
(* `now` that the Tick action advances; one operation reads one clock      *)
(* value.  A Python dict is a sequence of entries in insertion order, an   *)
(* OrderedDict a sequence of keys.                                         *)
(***************************************************************************)
EXTENDS Integers, Sequences, FiniteSets, TLC

VARIABLES
    max_size,       \* CacheSystem.max_size
    policy,         \* CacheSystem.policy (already upper-cased)
    ttl,            \* CacheSystem.ttl
    cache,          \* CacheSystem.cache: dict key -> CacheEntry, in insertion order
    access_order,   \* CacheSystem.access_order: OrderedDict, as a sequence of keys
    stats,          \* module-level stats dictionary
    now,            \* value returned by time.time()
    storage,        \* query_results table: its rows, in order of insertion
    last,           \* the call that was made last, with its arguments
    ret,            \* what that call returned (or the response of the handler)
    inserted,       \* history: stored keys by time of insertion, oldest first
    touched,        \* history: stored keys by latest insertion-or-successful-get
    scen,           \* history: progress through put(A); put(B); get(A)..; put(C)
    ops,            \* history: the number of calls and clock ticks so far
    called,         \* history: the CacheSystem operations the last call made
    written,        \* history: question_id -> number of upserts that succeeded
    querying,       \* the /query request in progress on the event loop
    clearing,       \* the /clear request in progress on a worker thread
    answered,       \* history: the keys whose latest request was answered "miss"
    storing,        \* the writes to query_results in progress, one per thread
    traffic         \* traffic generator: its stats counters and loop index i

vars == <<max_size, policy, ttl, cache, access_order, stats, now, storage,
          last, ret, inserted, touched, scen, ops, called, written, querying,
          clearing, answered, storing, traffic>>

(***************************************************************************)
(* Bounds of the model.                                                    *)
(***************************************************************************)
MaxSize == 2         \* largest capacity tried
MaxOps == 5          \* longest run: calls and clock ticks together
MaxRequests == 4     \* no request is handled after this many calls and ticks
TOTAL_QUERIES == 4   \* iterations of the traffic generator's loop
MaxStarts == 3       \* no concurrent request starts after this many starts and ticks

Policies == {"LRU", "LFU", "FIFO"}
TTLs == {0, 1}

\* (llm_answer, original_answer) pairs offered to put
Answers == { <<"a1", "r1">>, <<"a2", "r2">> }
QuestionIds == {1, 2}

\* (title, content) pairs offered to get and put.  The first three differ only
\* in letter case and in leading/trailing blanks of the title and the content.
Questions ==
    { << <<"F">>, <<"B">> >>,
      << <<" ", "f">>, <<"b", " ">> >>,
      << <<" ", "f", " ">>, <<" ", "b", " ">> >>,
      << <<"g">>, <<>> >> }

(***************************************************************************)
(* str.strip(), str.lower(), hashlib.md5                                   *)
(***************************************************************************)
IsSpace(ch) == ch = " "

RECURSIVE LStrip(_)
LStrip(s) == IF s # <<>> /\ IsSpace(Head(s)) THEN LStrip(Tail(s)) ELSE s

RECURSIVE RStrip(_)
RStrip(s) ==
    IF s # <<>> /\ IsSpace(s[Len(s)]) THEN RStrip(SubSeq(s, 1, Len(s) - 1)) ELSE s

Strip(s) == RStrip(LStrip(s))

LowerChar(ch) ==
    CASE ch = "F" -> "f"
      [] ch = "B" -> "b"
      [] ch = "G" -> "g"
      [] OTHER -> ch

Lower(s) == [i \in 1..Len(s) |-> LowerChar(s[i])]

\* The digest is an injective tag of its input: distinct inputs give distinct
\* digests, and a digest is never equal to a text.
Md5(s) == <<"md5", s>>

generate_key(question_title, question_content) ==
    Md5(Lower(Strip(question_title \o <<"|">> \o question_content)))

(***************************************************************************)
(* dict / OrderedDict helpers                                              *)
(***************************************************************************)
NoKey == <<>>
None == [kind |-> "None"]

Keys(c) == {c[i].key : i \in 1..Len(c)}
Index(c, key) == CHOOSE i \in 1..Len(c) : c[i].key = key
Entry(c, key) == c[Index(c, key)]
DictDel(c, key) == SelectSeq(c, LAMBDA e : e.key # key)
OrderKeys(ao) == {ao[i] : i \in 1..Len(ao)}
OrderDel(ao, key) == SelectSeq(ao, LAMBDA k : k # key)
OrderSet(ao, key) == IF key \in OrderKeys(ao) THEN ao ELSE Append(ao, key)
MoveToEnd(ao, key) == Append(OrderDel(ao, key), key)

CacheEntry(key, value, original_answer) ==
    [key |-> key, value |-> value, original_answer |-> original_answer,
     timestamp |-> now, access_count |-> 1, last_access |-> now]

is_expired_never(entry) == FALSE

is_expired_a_unit_late(entry) == (now - entry.timestamp) > ttl + 1

is_expired(entry) == (now - entry.timestamp) > ttl

(***************************************************************************)
(* CacheSystem._evict                                                      *)
(***************************************************************************)
MinCount(c) ==
    CHOOSE m \in {c[i].access_count : i \in 1..Len(c)} :
        \A i \in 1..Len(c) : m <= c[i].access_count

LFUKey_last_minimum(c) ==
    LET i == CHOOSE i \in 1..Len(c) :
                 /\ c[i].access_count = MinCount(c)
                 /\ \A j \in (i + 1)..Len(c) : c[j].access_count # MinCount(c)
    IN  c[i].key

\* min(self.cache.items(), key=...): the first entry, in the dict's iteration
\* order, that has the smallest access_count.
LFUKey(c) ==
    LET i == CHOOSE i \in 1..Len(c) :
                 /\ c[i].access_count = MinCount(c)
                 /\ \A j \in 1..(i - 1) : c[j].access_count # MinCount(c)
    IN  c[i].key

evict_key_lfu_max(c, ao) ==
    IF policy = "LFU"
    THEN (CHOOSE e \in {c[i] : i \in 1..Len(c)} :
              \A i \in 1..Len(c) : c[i].access_count <= e.access_count).key
    ELSE Head(ao)

evict_key_prefers_expired(c, ao) ==
    LET expired == {i \in 1..Len(c) : is_expired(c[i])} IN
    IF expired # {} THEN c[CHOOSE i \in expired : \A j \in expired : i <= j].key
    ELSE IF policy = "LRU" THEN Head(ao)
    ELSE IF policy = "LFU" THEN LFUKey(c)
    ELSE IF policy = "FIFO" THEN Head(ao)
    ELSE NoKey

\* key_to_remove, for a non-empty cache; NoKey stands for Python's None.
evict_key(c, ao) ==
    IF policy = "LRU" THEN Head(ao)
    ELSE IF policy = "LFU" THEN LFUKey(c)
    ELSE IF policy = "FIFO" THEN Head(ao)
    ELSE NoKey

Evicted(c, ao, st, exc) ==
    [cache |-> c, access_order |-> ao, stats |-> st, exc |-> exc]

evict_nothing(c, ao, st) == Evicted(c, ao, st, "none")

evict_uncounted(c, ao, st) ==
    IF c = <<>> THEN Evicted(c, ao, st, "none")
    ELSE Evicted(DictDel(c, evict_key(c, ao)), OrderDel(ao, evict_key(c, ao)),
                 st, "none")

evict(c, ao, st) ==
    IF c = <<>> THEN Evicted(c, ao, st, "none")
    ELSE IF policy \in {"LRU", "FIFO"} /\ ao = <<>>
    THEN Evicted(c, ao, st, "StopIteration")        \* next(iter(...)) of nothing
    ELSE LET key_to_remove == evict_key(c, ao) IN
         IF key_to_remove = NoKey THEN Evicted(c, ao, st, "none")
         ELSE IF key_to_remove \notin Keys(c)
         THEN Evicted(c, ao, st, "KeyError")         \* del self.cache[...]
         ELSE Evicted(DictDel(c, key_to_remove), OrderDel(ao, key_to_remove),
                      [st EXCEPT !.evictions = @ + 1], "none")

(***************************************************************************)
(* CacheSystem.get                                                         *)
(***************************************************************************)
Hit(entry) ==
    [kind |-> "dict", llm_answer |-> entry.value,
     original_answer |-> entry.original_answer,
     access_count |-> entry.access_count, cached_at |-> entry.timestamp]

Raise(exc) == [kind |-> "raise", exc |-> exc]

Got(c, ao, r) == [cache |-> c, access_order |-> ao, ret |-> r]

get_expired_keeps_order(c, ao, key) == Got(DictDel(c, key), ao, None)

\* lines 101-105: the entry is expired
get_expired(c, ao, key) == Got(DictDel(c, key), OrderDel(ao, key), None)

get_order_always_moves(ao, key) == MoveToEnd(ao, key)

get_order_never_moves(ao, key) == ao

\* lines 112-113: the order after a successful get (key is in ao under LRU)
get_order(ao, key) == IF policy = "LRU" THEN MoveToEnd(ao, key) ELSE ao

get(c, ao, question_title, question_content) ==
    LET key == generate_key(question_title, question_content) IN
    IF key \notin Keys(c) THEN Got(c, ao, None)
    ELSE IF is_expired(Entry(c, key)) THEN get_expired(c, ao, key)
    ELSE LET i == Index(c, key)
             c1 == [c EXCEPT ![i].access_count = @ + 1, ![i].last_access = now]
         IN  IF policy = "LRU" /\ key \notin OrderKeys(ao)
             THEN Got(c1, ao, Raise("KeyError"))    \* move_to_end of a missing key
             ELSE Got(c1, get_order(ao, key), Hit(c1[i]))

(***************************************************************************)
(* CacheSystem.put                                                         *)
(***************************************************************************)
put_existing_overwrites(c, key, llm_answer, original_answer) ==
    LET i == Index(c, key) IN
    [c EXCEPT ![i].access_count = @ + 1, ![i].last_access = now,
              ![i].value = llm_answer, ![i].original_answer = original_answer]

put_existing_resets_count(c, key, llm_answer, original_answer) ==
    LET i == Index(c, key) IN
    [c EXCEPT ![i].access_count = 1, ![i].last_access = now]

\* lines 128-131: the key is already present
put_existing(c, key, llm_answer, original_answer) ==
    LET i == Index(c, key) IN
    [c EXCEPT ![i].access_count = @ + 1, ![i].last_access = now]

\* lines 137-140, after the eviction e (if any) of lines 134-135
put_new(e, key, llm_answer, original_answer) ==
    IF e.exc # "none" THEN e
    ELSE Evicted(Append(e.cache, CacheEntry(key, llm_answer, original_answer)),
                 OrderSet(e.access_order, key), e.stats, "none")

put_key_without_duplicate_check(c, ao, st, key, llm_answer, original_answer) ==
    put_new(IF Len(c) >= max_size THEN evict(c, ao, st)
            ELSE Evicted(c, ao, st, "none"),
            key, llm_answer, original_answer)

put_key_evicts_early(c, ao, st, key, llm_answer, original_answer) ==
    IF key \in Keys(c)
    THEN Evicted(put_existing(c, key, llm_answer, original_answer), ao, st, "none")
    ELSE put_new(IF Len(c) + 1 >= max_size THEN evict(c, ao, st)
                 ELSE Evicted(c, ao, st, "none"),
                 key, llm_answer, original_answer)

put_key(c, ao, st, key, llm_answer, original_answer) ==
    IF key \in Keys(c)
    THEN Evicted(put_existing(c, key, llm_answer, original_answer), ao, st, "none")
    ELSE put_new(IF Len(c) >= max_size THEN evict(c, ao, st)
                 ELSE Evicted(c, ao, st, "none"),
                 key, llm_answer, original_answer)

put(c, ao, st, question_title, question_content, llm_answer, original_answer) ==
    put_key(c, ao, st, generate_key(question_title, question_content),
            llm_answer, original_answer)

(***************************************************************************)
(* History variables: they record what happened, the code never reads them *)
(***************************************************************************)
NoText == <<>>

\* present: the key of the call was in the store when the call was made
Call(op, question_title, question_content, llm_answer, original_answer, present) ==
    [op |-> op, title |-> question_title, content |-> question_content,
     llm_answer |-> llm_answer, original_answer |-> original_answer,
     present |-> present]

Restrict(seq, c) == SelectSeq(seq, LAMBDA k : k \in Keys(c))

\* keys by insertion: a key that enters the store goes to the back
InsertedNext(ins, c0, c1, key) ==
    Restrict(ins, c1) \o
        (IF key \notin Keys(c0) /\ key \in Keys(c1) THEN <<key>> ELSE <<>>)

\* keys by latest insertion-or-successful-get; fresh: this call was one of them
TouchedNext(tch, c1, key, fresh) ==
    Restrict(IF fresh THEN OrderDel(tch, key) ELSE tch, c1) \o
        (IF fresh /\ key \in Keys(c1) THEN <<key>> ELSE <<>>)

ScenStart == [phase |-> "start", a |-> NoKey, b |-> NoKey, c |-> NoKey]
ScenOff == [phase |-> "off", a |-> NoKey, b |-> NoKey, c |-> NoKey]

\* put(A); put(B); get(A); [get(A);] put(C) on an empty store, A, B, C distinct
\* keys, each put inserting and each get a hit; and, in any store,
\* get(A); get(A); put(A); put(A), both gets returning None and the first put
\* inserting (phases M, MM, MMP, MMPP).  Any other call ends the scenario.
ScenNext(s, op, key, fresh) ==
    CASE op = "put" /\ fresh /\ s.phase = "start" ->
            [s EXCEPT !.phase = "A", !.a = key]
      [] op = "put" /\ fresh /\ s.phase = "A" /\ key # s.a ->
            [s EXCEPT !.phase = "AB", !.b = key]
      [] op = "get" /\ fresh /\ s.phase = "AB" /\ key = s.a ->
            [s EXCEPT !.phase = "ABa"]
      [] op = "get" /\ fresh /\ s.phase = "ABa" /\ key = s.a ->
            [s EXCEPT !.phase = "ABaa"]
      [] op = "put" /\ fresh /\ s.phase = "ABa" /\ key \notin {s.a, s.b} ->
            [s EXCEPT !.phase = "ABaC", !.c = key]
      [] op = "put" /\ fresh /\ s.phase = "ABaa" /\ key \notin {s.a, s.b} ->
            [s EXCEPT !.phase = "ABaaC", !.c = key]
      [] op = "get" /\ ~fresh /\ s.phase = "M" /\ key = s.a ->
            [s EXCEPT !.phase = "MM"]
      [] op = "get" /\ ~fresh /\ ~(s.phase = "M" /\ key = s.a) ->
            [phase |-> "M", a |-> key, b |-> NoKey, c |-> NoKey]
      [] op = "put" /\ fresh /\ s.phase = "MM" /\ key = s.a ->
            [s EXCEPT !.phase = "MMP"]
      [] op = "put" /\ ~fresh /\ s.phase = "MMP" /\ key = s.a ->
            [s EXCEPT !.phase = "MMPP"]
      [] OTHER -> ScenOff

\* no /query request is in progress
QueryIdle == [pc |-> "idle"]

\* The threads that write to query_results at the same time
Workers == {1, 2}

StoreIdle == [pc |-> "idle"]

\* traffic_generator.py lines 26-31, before the loop of line 241
TrafficStart ==
    [i |-> 0, total_sent |-> 0, cache_hits |-> 0, cache_misses |-> 0, failed |-> 0]

\* the requests in progress are left as they are
SameRequests == UNCHANGED <<querying, clearing, answered, storing, traffic>>

\* one more call or tick, while the run is not at its longest
Step == ops < MaxOps /\ ops' = ops + 1

\* one more request
StepService == ops < MaxRequests /\ ops' = ops + 1

(***************************************************************************)
(* The state after construction (lines 26-31, 48-53, 153), for a capacity  *)
(* of at least one and one of the three policies.                          *)
(***************************************************************************)
Init ==
    /\ max_size \in 1..MaxSize
    /\ policy \in Policies
    /\ ttl \in TTLs
    /\ cache = <<>>
    /\ access_order = <<>>
    /\ stats = [hits |-> 0, misses |-> 0, total_queries |-> 0, evictions |-> 0]
    /\ now = 0
    /\ storage = <<>>
    /\ last = Call("init", NoText, NoText, "", "", FALSE)
    /\ ret = None
    /\ inserted = <<>>
    /\ touched = <<>>
    /\ scen = ScenStart
    /\ ops = 0
    /\ called = <<>>
    /\ written = [q \in QuestionIds |-> 0]
    /\ querying = QueryIdle
    /\ clearing = "idle"
    /\ answered = {}
    /\ storing = [w \in Workers |-> StoreIdle]
    /\ traffic = TrafficStart

(***************************************************************************)
(* Calls of the CacheSystem operations                                     *)
(***************************************************************************)
Get(question_title, question_content) ==
    \E key \in {generate_key(question_title, question_content)},
       g \in {get(cache, access_order, question_title, question_content)} :
    LET fresh == g.ret.kind = "dict"
    IN  /\ Step
        /\ cache' = g.cache
        /\ access_order' = g.access_order
        /\ ret' = g.ret
        /\ last' = Call("get", question_title, question_content, "", "",
                        key \in Keys(cache))
        /\ inserted' = InsertedNext(inserted, cache, g.cache, key)
        /\ touched' = TouchedNext(touched, g.cache, key, fresh)
        /\ scen' = ScenNext(scen, "get", key, fresh)
        /\ called' = <<"get">>
        /\ SameRequests
        /\ UNCHANGED <<max_size, policy, ttl, stats, now, storage, written>>

Put(question_title, question_content, llm_answer, original_answer) ==
    \E key \in {generate_key(question_title, question_content)},
       p \in {put(cache, access_order, stats, question_title, question_content,
                  llm_answer, original_answer)} :
    LET fresh == key \notin Keys(cache) /\ key \in Keys(p.cache)
    IN  /\ Step
        /\ cache' = p.cache
        /\ access_order' = p.access_order
        /\ stats' = p.stats
        /\ ret' = IF p.exc = "none" THEN None ELSE Raise(p.exc)
        /\ last' = Call("put", question_title, question_content,
                        llm_answer, original_answer, key \in Keys(cache))
        /\ inserted' = InsertedNext(inserted, cache, p.cache, key)
        /\ touched' = TouchedNext(touched, p.cache, key, fresh)
        /\ scen' = ScenNext(scen, "put", key, fresh)
        /\ called' = <<"put">>
        /\ SameRequests
        /\ UNCHANGED <<max_size, policy, ttl, now, storage, written>>

\* CacheSystem.clear (lines 146-149)
Clear ==
    /\ Step
    /\ cache' = <<>>
    /\ access_order' = <<>>
    /\ ret' = None
    /\ last' = Call("clear", NoText, NoText, "", "", FALSE)
    /\ inserted' = <<>>
    /\ touched' = <<>>
    /\ scen' = ScenStart
    /\ called' = <<"clear">>
    /\ SameRequests
    /\ UNCHANGED <<max_size, policy, ttl, stats, now, storage, written>>

\* time passes between two calls
Tick ==
    /\ Step
    /\ now' = now + 1
    /\ ret' = None
    /\ last' = Call("tick", NoText, NoText, "", "", FALSE)
    /\ called' = <<>>
    /\ UNCHANGED <<max_size, policy, ttl, cache, access_order, stats, storage,
                   inserted, touched, scen, written, querying, clearing,
                   answered, storing, traffic>>

Next ==
    \/ \E q \in Questions : Get(q[1], q[2])
    \/ \E q \in Questions, a \in Answers : Put(q[1], q[2], a[1], a[2])
    \/ Clear
    \/ Tick

Spec == Init /\ [][Next]_vars

(***************************************************************************)
(* Construction with any policy name: CacheSystem.__init__ stores           *)
(* policy.upper() and checks nothing (lines 48-53).                         *)
(***************************************************************************)
PolicyNames == {"LRU", "LFU", "FIFO", "lru", "mru"}

\* str.upper() of the names offered
upper(name) ==
    CASE name = "lru" -> "LRU"
      [] name = "mru" -> "MRU"
      [] OTHER -> name

InitConfig ==
    /\ max_size \in 1..MaxSize
    /\ \E name \in PolicyNames : policy = upper(name)
    /\ ttl \in TTLs
    /\ cache = <<>>
    /\ access_order = <<>>
    /\ stats = [hits |-> 0, misses |-> 0, total_queries |-> 0, evictions |-> 0]
    /\ now = 0
    /\ storage = <<>>
    /\ last = Call("init", NoText, NoText, "", "", FALSE)
    /\ ret = None
    /\ inserted = <<>>
    /\ touched = <<>>
    /\ scen = ScenStart
    /\ ops = 0
    /\ called = <<>>
    /\ written = [q \in QuestionIds |-> 0]
    /\ querying = QueryIdle
    /\ clearing = "idle"
    /\ answered = {}
    /\ storing = [w \in Workers |-> StoreIdle]
    /\ traffic = TrafficStart

SpecConfig == InitConfig /\ [][Next]_vars

(***************************************************************************)
(* The /query and /clear handlers.  process_query is a coroutine without   *)
(* an await: on the event loop it runs from its first line to its return.  *)
(***************************************************************************)
Nan == <<"n", "a", "n">>

\* The requests sent to /query: question_id, question_title, question_content,
\* original_answer.  The last two have no text to ask.
Requests ==
    { <<1, <<"F">>, <<"B">>, "r1">>,
      <<2, <<" ", "f", " ">>, <<" ", "b", " ">>, "r2">>,
      <<2, <<"g">>, <<>>, "r2">>,
      <<1, <<>>, <<" ">>, "r1">>,
      <<2, Nan, <<>>, "r2">> }

\* What the answer generator and the scorer do for one request: the generator
\* answers and the scorer scores, or one of the two calls raises.
Outcomes == {"a1", "a2", "llm_fails", "score_fails"}

\* <<outcome, db_ok>>; the database is only reached when neither call raised
Environments ==
    {e \in Outcomes \X BOOLEAN : e[1] \in {"llm_fails", "score_fails"} => e[2]}

\* lines 285-291: the text sent to the answer generator
llm_query(question_title, question_content) ==
    LET title == Strip(question_title)
        content0 == Strip(question_content)
        content == IF Lower(content0) = Nan \/ content0 = <<>> THEN <<>> ELSE content0
    IN  Strip(title \o <<" ">> \o content)

\* line 293
invalid_query(query) == query = <<>> \/ Lower(query) = Nan

\* A row of query_results (storage_service.py, init_database): the columns that
\* the services write after the insertion, and the three timestamps.  The
\* database clock is the clock `now`.
Row(id, question_id) ==
    [id |-> id, question_id |-> question_id, access_count |-> 1,
     created_at |-> now, updated_at |-> now, last_accessed |-> now]

\* SELECT ... FROM query_results WHERE question_id = %s
RowsOf(st, question_id) == SelectSeq(st, LAMBDA row : row.question_id = question_id)

\* INSERT: id is the next value of the SERIAL column
Insert(st, question_id) == Append(st, Row(Len(st) + 1, question_id))

\* update_storage_hit: UPDATE ... SET access_count = %s, last_accessed = NOW()
\* WHERE question_id = %s; an exception (db_ok false) is printed and swallowed.
update_storage_hit(st, question_id, access_count, db_ok) ==
    IF ~db_ok THEN st
    ELSE [i \in 1..Len(st) |->
            IF st[i].question_id = question_id
            THEN [st[i] EXCEPT !.access_count = access_count, !.last_accessed = now]
            ELSE st[i]]

\* save_to_storage: SELECT, then UPDATE access_count + 1 or INSERT with 1; an
\* exception (db_ok false) is printed and swallowed.
save_to_storage(st, question_id, db_ok) ==
    IF ~db_ok THEN st
    ELSE IF RowsOf(st, question_id) # <<>>
    THEN [i \in 1..Len(st) |->
            IF st[i].question_id = question_id
            THEN [st[i] EXCEPT !.access_count = @ + 1, !.last_accessed = now]
            ELSE st[i]]
    ELSE Insert(st, question_id)

Response(code, status, llm_answer, access_count) ==
    [kind |-> "response", code |-> code, status |-> status,
     llm_answer |-> llm_answer, access_count |-> access_count]

count_total(st) == [st EXCEPT !.total_queries = @ + 1]

count_hit_as_miss(st) == [st EXCEPT !.misses = @ + 1]

count_hit(st) == [st EXCEPT !.hits = @ + 1]

count_miss_never(st) == st

count_miss(st) == [st EXCEPT !.misses = @ + 1]

Done(g, c, ao, st, sto, resp, put_called) ==
    [cache |-> c, access_order |-> ao, stats |-> st, storage |-> sto,
     ret |-> resp, put_called |-> put_called, got |-> g]

call_failed_only_generator(outcome) == outcome = "llm_fails"

\* lines 297-303 and 308-316: requests.post to the answer generator, then to
\* the scorer, each followed by raise_for_status(); no loop around them
call_failed(outcome) == outcome \in {"llm_fails", "score_fails"}

\* lines 323-339, after the put p of line 321
after_put(g, p, question_id, llm_answer, db_ok) ==
    IF p.exc # "none"
    THEN Done(g, p.cache, p.access_order, p.stats, storage,
              Response(500, "error", "", 0), TRUE)
    ELSE Done(g, p.cache, p.access_order, p.stats,
              save_to_storage(storage, question_id, db_ok),
              Response(200, "miss", llm_answer, 1), TRUE)

\* A request r is <<question_id, question_title, question_content,
\* original_answer>>.  What it does once cache.get has returned g: the new
\* cache, order, stats and storage, and the response.  outcome is the answer of
\* the generator, or which of the two calls raised; db_ok says whether the
\* database call went through.
after_get(g, r, outcome, db_ok) ==
    LET st1 == count_total(stats)
        Out(c, ao, st, sto, resp, put_called) ==
            Done(g, c, ao, st, sto, resp, put_called)
    IN  IF g.ret.kind = "raise"
        THEN Out(g.cache, g.access_order, st1, storage,
                 Response(500, "error", "", 0), FALSE)
        ELSE IF g.ret.kind = "dict"
        THEN Out(g.cache, g.access_order, count_hit(st1),
                 update_storage_hit(storage, r[1], g.ret.access_count, db_ok),
                 Response(200, "hit", g.ret.llm_answer, g.ret.access_count), FALSE)
        ELSE LET st2 == count_miss(st1) IN
             IF \/ invalid_query(llm_query(r[2], r[3]))
                \/ call_failed(outcome)
             THEN \* HTTPException(400) and the errors of requests are caught by
                  \* `except Exception` and raised again as a 500
                  Out(g.cache, g.access_order, st2, storage,
                      Response(500, "error", "", 0), FALSE)
             ELSE after_put(g, put(g.cache, g.access_order, st2, r[2], r[3],
                                   outcome, r[4]),
                            r[1], outcome, db_ok)

\* process_query (lines 248-343): line 258, the get of line 262, and the rest
process_query(r, outcome, db_ok) ==
    after_get(get(cache, access_order, r[2], r[3]), r, outcome, db_ok)

\* one request handled from line 258 to its response
HandleQuery(r, outcome, db_ok) ==
    /\ \E key \in {generate_key(r[2], r[3])},
          o \in {process_query(r, outcome, db_ok)} :
          LET g == o.got
              hit == g.ret.kind = "dict"
              fresh == hit \/ (key \notin Keys(g.cache) /\ key \in Keys(o.cache))
          IN  /\ cache' = o.cache
              /\ access_order' = o.access_order
              /\ stats' = o.stats
              /\ storage' = o.storage
              /\ ret' = o.ret
              /\ called' = IF o.put_called THEN <<"get", "put">> ELSE <<"get">>
              /\ written' = IF o.ret.status = "miss" /\ o.storage # storage
                            THEN [written EXCEPT ![r[1]] = @ + 1]
                            ELSE written
              /\ UNCHANGED <<querying, clearing, storing, traffic>>
              /\ last' = Call("query", r[2], r[3], "", r[4], key \in Keys(cache))
              /\ inserted' = InsertedNext(InsertedNext(inserted, cache, g.cache, key),
                                          g.cache, o.cache, key)
              /\ touched' = TouchedNext(TouchedNext(touched, g.cache, key, hit),
                                        o.cache, key, fresh)
              /\ scen' = ScenOff
              /\ UNCHANGED <<max_size, policy, ttl, now>>

ProcessQuery(r, outcome, db_ok) ==
    /\ StepService
    /\ HandleQuery(r, outcome, db_ok)
    /\ answered' = answered

clear_stats_keeps_evictions(st) ==
    [st EXCEPT !.hits = 0, !.misses = 0, !.total_queries = 0]

\* lines 370-373
clear_stats(st) == [hits |-> 0, misses |-> 0, total_queries |-> 0, evictions |-> 0]

\* clear_cache (lines 367-375)
ClearCache ==
    /\ StepService
    /\ cache' = <<>>
    /\ access_order' = <<>>
    /\ stats' = clear_stats(stats)
    /\ ret' = [kind |-> "response", code |-> 200, status |-> "cleared",
               llm_answer |-> "", access_count |-> 0]
    /\ last' = Call("clear_cache", NoText, NoText, "", "", FALSE)
    /\ inserted' = <<>>
    /\ touched' = <<>>
    /\ scen' = ScenStart
    /\ called' = <<"clear">>
    /\ SameRequests
    /\ UNCHANGED <<max_size, policy, ttl, now, storage, written>>

NextService ==
    \/ \E r \in Requests, e \in Environments : ProcessQuery(r, e[1], e[2])
    \/ ClearCache
    \/ Tick

SpecService == Init /\ [][NextService]_vars

(***************************************************************************)
(* Requests for a key that was asked before: process_query and the clock,  *)
(* with a record of the keys whose latest request was answered "miss".     *)
(***************************************************************************)
\* Requests with three different keys
RepeatRequests ==
    { <<1, <<"F">>, <<"B">>, "r1">>,
      <<2, <<" ", "f", " ">>, <<" ", "b", " ">>, "r2">>,
      <<2, <<"g">>, <<>>, "r2">> }

RepeatOutcomes == {"a1", "llm_fails", "score_fails"}

\* The record after a request for `key` answered with `status`: the request
\* ends the wait of its own key and, answered "miss", starts a new one at the
\* present clock value; `others` counts the keys that requests answered
\* "miss", each of which put a new key, have inserted since.
AnsweredNext(ans, key, status) ==
    {[a EXCEPT !.others = @ + (IF status = "miss" THEN 1 ELSE 0)] :
        a \in {b \in ans : b.key # key}}
    \cup (IF status = "miss" THEN {[key |-> key, at |-> now, others |-> 0]} ELSE {})

Requery(r, outcome) ==
    /\ Step
    /\ HandleQuery(r, outcome, TRUE)
    /\ answered' = AnsweredNext(answered, generate_key(r[2], r[3]), ret'.status)

NextRepeat ==
    \/ \E r \in RepeatRequests, outcome \in RepeatOutcomes : Requery(r, outcome)
    \/ Tick

SpecRepeat == Init /\ [][NextRepeat]_vars

(***************************************************************************)
(* The handlers running at once.  process_query runs on the event loop,    *)
(* one request at a time; clear_cache is a plain function, so the           *)
(* framework runs it on a worker thread, next to the event loop.  Nothing   *)
(* in the code takes a lock, and the interpreter may switch threads between *)
(* any two statements: one action is one statement (or a run of statements  *)
(* that touch nothing shared).  querying.pc and clearing name the line that *)
(* runs next.  /health and /stats only read and are left out.  The history  *)
(* variables inserted, touched and scen are not kept here.                  *)
(***************************************************************************)
\* requests and environments of the concurrent runs: two keys, one failing call
ConcRequests == { <<1, <<"F">>, <<"B">>, "r1">>, <<2, <<"g">>, <<>>, "r2">> }
ConcEnvironments == { <<"a1", TRUE>>, <<"llm_fails", TRUE>> }

StepConc == ops < MaxStarts /\ ops' = ops + 1

QKey == generate_key(querying.r[2], querying.r[3])

At(q, pc) == [q EXCEPT !.pc = pc]

\* the statement raises: control goes to `except Exception` (line 341)
Raised(q, exc) == [q EXCEPT !.pc = "except", !.exc = exc]

\* one statement of the request in progress, at line `at`
QStep(at, q, c, ao, st, op) ==
    /\ querying.pc = at
    /\ querying' = q
    /\ cache' = c
    /\ access_order' = ao
    /\ stats' = st
    /\ called' = IF op = "" THEN called ELSE Append(called, op)
    /\ UNCHANGED <<max_size, policy, ttl, now, storage, last, ret, inserted,
                   touched, scen, ops, written, clearing,
                   answered, storing, traffic>>

\* the request returns or raises its HTTPException
QReturn(at, sto, resp, wr) ==
    /\ querying.pc = at
    /\ querying' = QueryIdle
    /\ storage' = sto
    /\ ret' = resp
    /\ written' = wr
    /\ UNCHANGED <<max_size, policy, ttl, cache, access_order, stats, now, last,
                   inserted, touched, scen, ops, called, clearing,
                   answered, storing, traffic>>

\* line 258, for a request that arrives while the event loop is free
Q258(r, outcome, db_ok) ==
    /\ querying.pc = "idle"
    /\ StepConc
    /\ querying' = [pc |-> "get_95", r |-> r, outcome |-> outcome, db_ok |-> db_ok,
                    entry |-> None, key_to_remove |-> NoKey, exc |-> "none",
                    cached |-> None]
    /\ stats' = count_total(stats)
    /\ last' = Call("query", r[2], r[3], "", r[4], generate_key(r[2], r[3]) \in Keys(cache))
    /\ ret' = None
    /\ called' = <<>>
    /\ UNCHANGED <<max_size, policy, ttl, cache, access_order, now, storage,
                   inserted, touched, scen, written, clearing,
                   answered, storing, traffic>>

\* CacheSystem.get, line 95
G95 ==
    QStep("get_95",
          At(querying, IF QKey \in Keys(cache) THEN "get_98" ELSE "miss_281"),
          cache, access_order, stats, "get")

\* line 98: entry = self.cache[key]
G98 ==
    QStep("get_98",
          IF QKey \in Keys(cache)
          THEN [querying EXCEPT !.pc = "get_101", !.entry = Entry(cache, QKey)]
          ELSE Raised(querying, "KeyError"),
          cache, access_order, stats, "")

\* line 101
G101 ==
    QStep("get_101",
          At(querying, IF is_expired(querying.entry) THEN "get_102" ELSE "get_108"),
          cache, access_order, stats, "")

\* line 102: del self.cache[key]
G102 ==
    QStep("get_102",
          IF QKey \in Keys(cache) THEN At(querying, "get_103")
          ELSE Raised(querying, "KeyError"),
          DictDel(cache, QKey), access_order, stats, "")

\* line 103, and the return of line 105
G103 ==
    QStep("get_103",
          At(querying, IF QKey \in OrderKeys(access_order) THEN "get_104" ELSE "miss_281"),
          cache, access_order, stats, "")

\* line 104: del self.access_order[key], and the return of line 105
G104 ==
    QStep("get_104",
          IF QKey \in OrderKeys(access_order) THEN At(querying, "miss_281")
          ELSE Raised(querying, "KeyError"),
          cache, OrderDel(access_order, QKey), stats, "")

\* lines 108-109 write the entry object that line 98 found; it is the object
\* in the map for as long as the map has the key, since only this request
\* inserts.
Touch(entry) == [entry EXCEPT !.access_count = @ + 1, !.last_access = now]

G108 ==
    QStep("get_108",
          [querying EXCEPT !.pc = "get_112", !.entry = Touch(querying.entry)],
          [i \in 1..Len(cache) |->
              IF cache[i].key = QKey THEN Touch(querying.entry) ELSE cache[i]],
          access_order, stats, "")

\* lines 112-120: move_to_end raises KeyError for a key that is not there
G112 ==
    QStep("get_112",
          IF policy = "LRU" /\ QKey \notin OrderKeys(access_order)
          THEN Raised(querying, "KeyError")
          ELSE [querying EXCEPT !.pc = "hit_266", !.cached = Hit(querying.entry)],
          cache,
          IF QKey \in OrderKeys(access_order) THEN get_order(access_order, QKey)
          ELSE access_order,
          stats, "")

\* line 266
H266 == QStep("hit_266", At(querying, "hit_270"), cache, access_order, count_hit(stats), "")

\* lines 270-278
H270 ==
    QReturn("hit_270",
            update_storage_hit(storage, querying.r[1], querying.cached.access_count,
                               querying.db_ok),
            Response(200, "hit", querying.cached.llm_answer,
                     querying.cached.access_count),
            written)

\* line 281
M281 == QStep("miss_281", At(querying, "ask_284"), cache, access_order, count_miss(stats), "")

\* lines 284-318: the query is built and tested, the generator and the scorer
\* are called
A284 ==
    QStep("ask_284",
          IF invalid_query(llm_query(querying.r[2], querying.r[3]))
          THEN Raised(querying, "HTTPException")
          ELSE IF querying.outcome \in {"llm_fails", "score_fails"}
          THEN Raised(querying, "RequestException")
          ELSE At(querying, "put_128"),
          cache, access_order, stats, "")

\* CacheSystem.put, lines 128-131.  Lines 129 and 130 each look the key up
\* again (self.cache[key]).  No request reaches them: the get of the same
\* request has found the key absent or has removed it, and no other request
\* inserts while this one is in progress.
PutPresent(q, c) ==
    CASE q.pc = "put_128" ->
            [querying |-> At(q, IF QKey \in Keys(c) THEN "put_129" ELSE "put_134"),
             cache |-> c]
      [] q.pc \in {"put_129", "put_130"} /\ QKey \notin Keys(c) ->
            [querying |-> Raised(q, "KeyError"), cache |-> c]
      [] q.pc = "put_129" /\ QKey \in Keys(c) ->
            [querying |-> At(q, "put_130"),
             cache |-> [c EXCEPT ![Index(c, QKey)].access_count = @ + 1]]
      [] q.pc = "put_130" /\ QKey \in Keys(c) ->
            [querying |-> At(q, "save_324"),
             cache |-> [c EXCEPT ![Index(c, QKey)].last_access = now]]

P128 ==
    /\ querying.pc \in {"put_128", "put_129", "put_130"}
    /\ QStep(querying.pc, PutPresent(querying, cache).querying,
             PutPresent(querying, cache).cache, access_order, stats,
             IF querying.pc = "put_128" THEN "put" ELSE "")

\* line 134
P134 ==
    QStep("put_134",
          At(querying, IF Len(cache) >= max_size THEN "evict_66" ELSE "put_138"),
          cache, access_order, stats, "")

\* CacheSystem._evict, line 66
E66 ==
    QStep("evict_66",
          At(querying, IF cache = <<>> THEN "put_138" ELSE "evict_71"),
          cache, access_order, stats, "")

\* lines 69-84: next(iter(...)) of an empty OrderedDict raises StopIteration,
\* min(...) of an empty dict raises ValueError
E71 ==
    QStep("evict_71",
          IF policy \in {"LRU", "FIFO"} /\ access_order = <<>>
          THEN Raised(querying, "StopIteration")
          ELSE IF policy = "LFU" /\ cache = <<>>
          THEN Raised(querying, "ValueError")
          ELSE IF evict_key(cache, access_order) = NoKey
          THEN At(querying, "put_138")
          ELSE [querying EXCEPT !.pc = "evict_85",
                                !.key_to_remove = evict_key(cache, access_order)],
          cache, access_order, stats, "")

\* line 85: del self.cache[key_to_remove]
E85 ==
    QStep("evict_85",
          IF querying.key_to_remove \in Keys(cache) THEN At(querying, "evict_86")
          ELSE Raised(querying, "KeyError"),
          DictDel(cache, querying.key_to_remove), access_order, stats, "")

\* line 86
E86 ==
    QStep("evict_86",
          At(querying, IF querying.key_to_remove \in OrderKeys(access_order)
                       THEN "evict_87" ELSE "evict_88"),
          cache, access_order, stats, "")

\* line 87: del self.access_order[key_to_remove]
E87 ==
    QStep("evict_87",
          IF querying.key_to_remove \in OrderKeys(access_order)
          THEN At(querying, "evict_88")
          ELSE Raised(querying, "KeyError"),
          cache, OrderDel(access_order, querying.key_to_remove), stats, "")

\* lines 88-89
E88 ==
    QStep("evict_88", At(querying, "put_138"), cache, access_order,
          [stats EXCEPT !.evictions = @ + 1], "")

\* lines 138-139
P138 ==
    QStep("put_138", At(querying, "put_140"),
          Append(cache, CacheEntry(QKey, querying.outcome, querying.r[4])),
          access_order, stats, "")

\* line 140
P140 ==
    QStep("put_140", At(querying, "save_324"), cache,
          OrderSet(access_order, QKey), stats, "")

\* lines 324-339
S324 ==
    QReturn("save_324",
            save_to_storage(storage, querying.r[1], querying.db_ok),
            Response(200, "miss", querying.outcome, 1),
            IF querying.db_ok THEN [written EXCEPT ![querying.r[1]] = @ + 1]
            ELSE written)

\* lines 341-343
X341 == QReturn("except", storage, Response(500, "error", "", 0), written)

\* one statement of clear_cache on the worker thread
CStep(at, next, c, ao, st) ==
    /\ clearing = at
    /\ clearing' = next
    /\ cache' = c
    /\ access_order' = ao
    /\ stats' = st
    /\ UNCHANGED <<max_size, policy, ttl, now, storage, last, ret, inserted,
                   touched, scen, called, written, querying,
                   answered, storing, traffic>>

\* line 370 calls CacheSystem.clear: line 148
C148 == StepConc /\ CStep("idle", "clear_149", <<>>, access_order, stats)

\* line 149
C149 == CStep("clear_149", "clear_371", cache, <<>>, stats) /\ UNCHANGED ops

\* lines 371-374, one counter each
Zero(at, next, counter) ==
    CStep(at, next, cache, access_order, [stats EXCEPT ![counter] = 0]) /\ UNCHANGED ops

C371 == Zero("clear_371", "clear_372", "hits")

C372 == Zero("clear_372", "clear_373", "misses")

C373 == Zero("clear_373", "clear_374", "total_queries")

\* line 374, and the return of line 375
C374 == Zero("clear_374", "idle", "evictions")

\* time passes, at any point of the requests in progress
TickConc ==
    /\ StepConc
    /\ now' = now + 1
    /\ UNCHANGED <<max_size, policy, ttl, cache, access_order, stats, storage,
                   last, ret, inserted, touched, scen, called, written, querying,
                   clearing,
                   answered, storing, traffic>>

NextConc ==
    \/ \E r \in ConcRequests, e \in ConcEnvironments : Q258(r, e[1], e[2])
    \/ G95 \/ G98 \/ G101 \/ G102 \/ G103 \/ G104 \/ G108 \/ G112
    \/ H266 \/ H270 \/ M281 \/ A284
    \/ P128 \/ P134
    \/ E66 \/ E71 \/ E85 \/ E86 \/ E87 \/ E88
    \/ P138 \/ P140 \/ S324 \/ X341
    \/ C148 \/ C149 \/ C371 \/ C372 \/ C373 \/ C374
    \/ TickConc

SpecConc == Init /\ [][NextConc]_vars

(***************************************************************************)
(* The storage service (storage_service.py): POST /store, and next to it   *)
(* the upsert that the cache service makes on the same table after a miss. *)
(***************************************************************************)
Stored(st, resp) == [storage |-> st, ret |-> resp]

store_result_always_inserts(st, question_id, db_ok) ==
    Stored(Insert(st, question_id), Response(200, "created", "", 1))

\* store_result (lines 83-155): SELECT id, access_count; fetchone() is the first
\* row found; then UPDATE ... WHERE id = result_id, or INSERT.  Any exception
\* (db_ok false) becomes a 500 and nothing is committed.
store_result(st, question_id, db_ok) ==
    IF ~db_ok THEN Stored(st, Response(500, "error", "", 0))
    ELSE IF RowsOf(st, question_id) # <<>>
    THEN LET existing == Head(RowsOf(st, question_id))
             new_count == existing.access_count + 1
         IN  Stored([i \in 1..Len(st) |->
                       IF st[i].id = existing.id
                       THEN [st[i] EXCEPT !.access_count = new_count,
                                          !.updated_at = now,
                                          !.last_accessed = now]
                       ELSE st[i]],
                    Response(200, "updated", "", new_count))
    ELSE Stored(Insert(st, question_id), Response(200, "created", "", 1))

StoreResult(question_id, db_ok) ==
    \E o \in {store_result(storage, question_id, db_ok)} :
        /\ Step
        /\ storage' = o.storage
        /\ ret' = o.ret
        /\ written' = IF o.ret.code = 200
                      THEN [written EXCEPT ![question_id] = @ + 1]
                      ELSE written
        /\ last' = Call("store", NoText, NoText, "", "",
                        RowsOf(storage, question_id) # <<>>)
        /\ called' = <<>>
        /\ SameRequests
        /\ UNCHANGED <<max_size, policy, ttl, cache, access_order, stats, now,
                       inserted, touched, scen,
                   answered, storing, traffic>>

\* save_to_storage (cache_service.py, lines 194-233), as process_query calls it
\* at line 324
SaveToStorage(question_id, db_ok) ==
    /\ Step
    /\ storage' = save_to_storage(storage, question_id, db_ok)
    /\ ret' = None
    /\ written' = IF db_ok THEN [written EXCEPT ![question_id] = @ + 1] ELSE written
    /\ last' = Call("save", NoText, NoText, "", "",
                    RowsOf(storage, question_id) # <<>>)
    /\ called' = <<>>
    /\ SameRequests
    /\ UNCHANGED <<max_size, policy, ttl, cache, access_order, stats, now,
                   inserted, touched, scen,
                   answered, storing, traffic>>

NextStorage ==
    \/ \E question_id \in QuestionIds, db_ok \in BOOLEAN :
          StoreResult(question_id, db_ok)
    \/ \E question_id \in QuestionIds, db_ok \in BOOLEAN :
          SaveToStorage(question_id, db_ok)
    \/ Tick

SpecStorage == Init /\ [][NextStorage]_vars

(***************************************************************************)
(* Writes to query_results made at the same time.  store_result is a plain *)
(* function, so the framework runs each POST /store on a worker thread;    *)
(* the cache service writes to the same table from its own process.  Each  *)
(* write opens its own connection: a transaction at PostgreSQL's default   *)
(* isolation, READ COMMITTED, whose SELECT sees what has been committed    *)
(* and whose UPDATE or INSERT shows at its commit, which is the next       *)
(* statement.  The table has no UNIQUE constraint on question_id and the   *)
(* SELECT takes no lock, so nothing makes a second transaction wait        *)
(* between its SELECT and its write.                                       *)
(***************************************************************************)
\* fetchone() has returned None
NoRow == [id |-> 0]

\* who writes: POST /store of the storage service, or save_to_storage of the
\* cache service
Writers == {"store", "save"}

SameService ==
    UNCHANGED <<max_size, policy, ttl, cache, access_order, stats, now, ret,
                inserted, touched, scen, called, querying, clearing, answered, traffic>>

\* storage_service.py lines 91-100, cache_service.py lines 198-208: connect,
\* SELECT id, access_count ... WHERE question_id, fetchone()
Select(w, writer, question_id) ==
    /\ storing[w].pc = "idle"
    /\ StepConc
    /\ storing' = [storing EXCEPT ![w] =
                      [pc |-> "selected", writer |-> writer,
                       question_id |-> question_id,
                       existing |-> IF RowsOf(storage, question_id) = <<>> THEN NoRow
                                    ELSE Head(RowsOf(storage, question_id))]]
    /\ last' = Call(writer, NoText, NoText, "", "",
                    RowsOf(storage, question_id) # <<>>)
    /\ UNCHANGED <<storage, written>>
    /\ SameService

\* the write has been committed and the function returns
Committed(w, st) ==
    /\ storage' = st
    /\ written' = [written EXCEPT ![storing[w].question_id] = @ + 1]
    /\ storing' = [storing EXCEPT ![w] = StoreIdle]
    /\ UNCHANGED <<ops, last>>
    /\ SameService

\* storage_service.py lines 102-113: new_count = existing[1] + 1, computed from
\* the row that the SELECT returned; UPDATE ... SET access_count = new_count
\* WHERE id = result_id; commit
update_by_id(st, existing, question_id) ==
    [i \in 1..Len(st) |->
        IF st[i].id = existing.id
        THEN [st[i] EXCEPT !.access_count = existing.access_count + 1,
                           !.updated_at = now, !.last_accessed = now]
        ELSE st[i]]

\* cache_service.py lines 210-216: UPDATE ... SET access_count = access_count + 1
\* WHERE question_id, on the rows as they are when the statement runs; commit
update_by_question_id(st, existing, question_id) ==
    [i \in 1..Len(st) |->
        IF st[i].question_id = question_id
        THEN [st[i] EXCEPT !.access_count = @ + 1, !.last_accessed = now]
        ELSE st[i]]

Update(w) ==
    /\ storing[w].pc = "selected"
    /\ storing[w].existing # NoRow
    /\ Committed(w, IF storing[w].writer = "store"
                    THEN update_by_id(storage, storing[w].existing,
                                      storing[w].question_id)
                    ELSE update_by_question_id(storage, storing[w].existing,
                                               storing[w].question_id))

\* storage_service.py lines 125-143, cache_service.py lines 218-227: INSERT with
\* access_count 1; commit
InsertRow(w) ==
    /\ storing[w].pc = "selected"
    /\ storing[w].existing = NoRow
    /\ Committed(w, Insert(storage, storing[w].question_id))

NextWrites ==
    \/ \E w \in Workers, writer \in Writers, question_id \in QuestionIds :
          Select(w, writer, question_id)
    \/ \E w \in Workers : Update(w)
    \/ \E w \in Workers : InsertRow(w)

SpecWrites == Init /\ [][NextWrites]_vars

(***************************************************************************)
(* The traffic generator (traffic_generator.py): the loop of               *)
(* generate_traffic, one action per iteration.                             *)
(***************************************************************************)
\* what query_cache returns: the cache's response, or status "error" for an
\* empty title, a timeout or any exception of the request (lines 97-131)
Statuses == {"hit", "miss", "error"}

\* which statement of the iteration raises: none; get_random_question (line
\* 244, the database call); time.sleep(interval) (line 297), which raises
\* ValueError for a negative interval (LAMBDA, MIN_INTERVAL and MAX_INTERVAL
\* are read from the environment unchecked) and is reached only when the
\* iteration is not the last one
Raises == {"none", "get_random_question", "sleep"}

\* lines 301-304: except Exception
failed_iteration(t) ==
    [t EXCEPT !.failed = @ + 1, !.total_sent = @ + 1]

\* lines 242-304: one iteration, from the counters t
iteration(t, status, raises) ==
    LET next == [t EXCEPT !.i = @ + 1] IN
    IF raises = "get_random_question" THEN failed_iteration(next)
    ELSE IF status = "error"
    THEN [next EXCEPT !.failed = @ + 1, !.total_sent = @ + 1]    \* 256-260
    ELSE LET sent == [next EXCEPT !.total_sent = @ + 1]          \* 262
             counted == IF status = "hit"
                        THEN [sent EXCEPT !.cache_hits = @ + 1]      \* 264-266
                        ELSE [sent EXCEPT !.cache_misses = @ + 1]    \* 271-273
         IN  IF raises = "sleep" THEN failed_iteration(counted) ELSE counted

Iteration(status, raises) ==
    /\ traffic.i < TOTAL_QUERIES
    /\ raises = "sleep" => traffic.i < TOTAL_QUERIES - 1 /\ status # "error"
    /\ traffic' = iteration(traffic, status, raises)
    /\ UNCHANGED <<max_size, policy, ttl, cache, access_order, stats, now, storage,
                   last, ret, inserted, touched, scen, ops, called, written,
                   querying, clearing, answered, storing>>

NextTraffic == \E status \in Statuses, raises \in Raises : Iteration(status, raises)

SpecTraffic == Init /\ [][NextTraffic]_vars

(***************************************************************************)
(* Properties                                                              *)
(***************************************************************************)
LastKey == generate_key(last.title, last.content)
Removed == Keys(cache) \ Keys(cache')
Evicting == stats'.evictions = stats.evictions + 1

\* Two (title, content) pairs that differ only in letter case and in leading or
\* trailing blanks of the title or of the content
Variant(t1, c1, t2, c2) ==
    /\ Lower(Strip(t1)) = Lower(Strip(t2))
    /\ Lower(Strip(c1)) = Lower(Strip(c2))

\* C1: whenever an operation has returned, the store holds at most max_size
\* entries.
C1_SizeWithinCapacity == Len(cache) <= max_size

\* a put has just evicted to make room in a full store
C1_Witness ==
    /\ last.op = "put"
    /\ ~last.present
    /\ stats.evictions >= 1
    /\ Len(cache) = max_size

\* C2: the keys of the entry map are exactly the keys of the order structure,
\* and no key occurs twice in either.
C2_SameKeys ==
    /\ Keys(cache) = OrderKeys(access_order)
    /\ Cardinality(OrderKeys(access_order)) = Len(access_order)
    /\ Cardinality(Keys(cache)) = Len(cache)

\* an expired entry has just been removed by a get, after an eviction, and
\* another entry is still stored
C2_Witness ==
    /\ last.op = "get"
    /\ last.present
    /\ ret = None
    /\ stats.evictions >= 1
    /\ cache # <<>>

\* C3: a get that directly follows put(title, content, answer, reference), for
\* the same title and content in any casing/whitespace variant, is a hit that
\* returns that answer and that reference.
C3_GetAfterPut ==
    [][(/\ last.op = "put"
        /\ last'.op = "get"
        /\ Variant(last.title, last.content, last'.title, last'.content))
       => (/\ ret'.kind = "dict"
           /\ ret'.llm_answer = last.llm_answer
           /\ ret'.original_answer = last.original_answer)]_vars

\* C4: the (title, content) of a call and every pair that differs from it only
\* in case and in leading/trailing blanks of the title or the content derive
\* the same key.
C4_KeyInsensitive ==
    last.op \in {"get", "put"} =>
        \A q \in Questions :
            Variant(q[1], q[2], last.title, last.content)
                => generate_key(q[1], q[2]) = LastKey

\* C5: under LRU the order structure lists the stored keys by their latest
\* insertion-or-successful-get, oldest first, and an eviction removes exactly
\* the oldest of them; with capacity 2, put(A); put(B); get(A); put(C) leaves
\* A and C.
C5_LRU ==
    /\ [](policy = "LRU" =>
            /\ access_order = touched
            /\ (max_size = 2 /\ scen.phase = "ABaC"
                  => Keys(cache) = {scen.a, scen.c}))
    /\ [][policy = "LRU" /\ Evicting => Removed = {Head(touched)}]_vars

C5_Witness == policy = "LRU" /\ max_size = 2 /\ scen.phase = "ABaC"

\* C6: under FIFO the order structure lists the stored keys by insertion,
\* oldest first, a get moves no key relative to another, and an eviction
\* removes exactly the key inserted earliest; with capacity 2,
\* put(A); put(B); get(A); put(C) leaves B and C.
C6_FIFO ==
    /\ [](policy = "FIFO" =>
            /\ access_order = inserted
            /\ (max_size = 2 /\ scen.phase = "ABaC"
                  => Keys(cache) = {scen.b, scen.c}))
    /\ [][policy = "FIFO" /\ last'.op = "get"
            => access_order' = Restrict(access_order, cache')]_vars
    /\ [][policy = "FIFO" /\ Evicting => Removed = {Head(inserted)}]_vars

C6_Witness == policy = "FIFO" /\ max_size = 2 /\ scen.phase = "ABaC"

\* C7: under LFU an eviction removes one entry, and its access_count is at
\* most that of every entry that stays; with capacity 2,
\* put(A); put(B); get(A); get(A); put(C) leaves A and C.
C7_LFU ==
    /\ [](policy = "LFU" /\ max_size = 2 /\ scen.phase = "ABaaC"
            => Keys(cache) = {scen.a, scen.c})
    /\ [][policy = "LFU" /\ Evicting =>
            /\ Cardinality(Removed) = 1
            /\ \A v \in Removed : \A k \in Keys(cache) \ Removed :
                   Entry(cache, v).access_count <= Entry(cache, k).access_count]_vars

C7_Witness == policy = "LFU" /\ max_size = 2 /\ scen.phase = "ABaaC"

\* C8: a get on a stored key whose entry is older than ttl returns None and
\* removes the key from the entry map and from the order structure; a get
\* never returns an entry older than ttl.
C8_Expiry ==
    /\ [][(/\ last'.op = "get"
           /\ last'.present
           /\ now - Entry(cache, generate_key(last'.title, last'.content)).timestamp
                  > ttl)
          => (/\ ret' = None
              /\ generate_key(last'.title, last'.content) \notin Keys(cache')
              /\ generate_key(last'.title, last'.content)
                     \notin OrderKeys(access_order'))]_vars
    /\ [](last.op = "get" /\ ret.kind = "dict" => now - ret.cached_at <= ttl)

\* a get has just found its key stored and returned None
C8_Witness == last.op = "get" /\ last.present /\ ret = None /\ LastKey \notin Keys(cache)

\* C9: a put for a stored key adds one to the entry's access_count; the value,
\* the original_answer and the timestamp of an entry never change while it is
\* stored, and are those of the put that created it.
C9_DuplicatePut ==
    /\ [][\A k \in Keys(cache) \cap Keys(cache') :
            /\ Entry(cache', k).value = Entry(cache, k).value
            /\ Entry(cache', k).original_answer = Entry(cache, k).original_answer
            /\ Entry(cache', k).timestamp = Entry(cache, k).timestamp]_vars
    /\ [][last'.op = "put" /\ last'.present =>
            /\ generate_key(last'.title, last'.content) \in Keys(cache')
            /\ Entry(cache', generate_key(last'.title, last'.content)).access_count
                 = Entry(cache, generate_key(last'.title, last'.content)).access_count + 1]_vars
    /\ [](last.op = "put" /\ ~last.present /\ ret = None =>
            /\ LastKey \in Keys(cache)
            /\ Entry(cache, LastKey).value = last.llm_answer
            /\ Entry(cache, LastKey).original_answer = last.original_answer
            /\ Entry(cache, LastKey).timestamp = now)

\* a put for a stored key has just been made with another answer
C9_Witness ==
    /\ last.op = "put"
    /\ last.present
    /\ LastKey \in Keys(cache)
    /\ Entry(cache, LastKey).value # last.llm_answer
    /\ Entry(cache, LastKey).original_answer # last.original_answer

\* C10: after every request hits + misses = total_queries, failed requests
\* included.
C10_HitsPlusMisses == stats.hits + stats.misses = stats.total_queries

\* a request has just failed after a hit and a miss were counted
C10_Witness ==
    /\ last.op = "query"
    /\ ret.code = 500
    /\ stats.hits >= 1
    /\ stats.misses >= 1

\* C11: the /clear handler, in whatever state it is called, leaves no entry,
\* an empty order structure and hits, misses, total_queries and evictions at 0,
\* and does not change max_size, policy or ttl.
C11_Clear ==
    /\ [](last.op = "clear_cache" =>
            /\ Len(cache) = 0
            /\ access_order = <<>>
            /\ stats.hits = 0
            /\ stats.misses = 0
            /\ stats.total_queries = 0
            /\ stats.evictions = 0)
    /\ [][last'.op = "clear_cache" => UNCHANGED <<max_size, policy, ttl>>]_vars

\* /clear has just been handled after answers for both question ids were stored
C11_Witness ==
    /\ last.op = "clear_cache"
    /\ RowsOf(storage, 1) # <<>>
    /\ RowsOf(storage, 2) # <<>>

\* C15: an entry is created with access_count 1, and while it is stored its
\* access_count never decreases, so it is at least 1.
C15_AccessCount ==
    /\ [](\A i \in 1..Len(cache) : cache[i].access_count >= 1)
    /\ [][\A k \in Keys(cache') :
            IF k \in Keys(cache)
            THEN Entry(cache', k).access_count >= Entry(cache, k).access_count
            ELSE Entry(cache', k).access_count = 1]_vars

\* a get has just returned an entry that was counted up at least twice
C15_Witness == last.op = "get" /\ ret.kind = "dict" /\ ret.access_count >= 3

\* C16: a step that changes the evictions counter adds exactly 1 to it and
\* removes exactly one key, from the entry map and from the order structure;
\* a put that removes a key counts an eviction; a put of a new key into a full
\* store leaves the store full and the counter one higher.
C16_Eviction ==
    /\ [][stats'.evictions # stats.evictions =>
            /\ Evicting
            /\ Cardinality(Removed) = 1
            /\ Removed \subseteq OrderKeys(access_order)
            /\ Removed \cap OrderKeys(access_order') = {}
            /\ Len(cache') = Len(cache)
            /\ Len(access_order') = Len(access_order)]_vars
    /\ [][last'.op = "put" /\ Removed # {} => Evicting]_vars
    /\ [][last'.op = "put" /\ ~last'.present /\ Len(cache) = max_size =>
            /\ Len(cache') = max_size
            /\ Evicting]_vars

\* a second eviction has just made room in a store of two entries
C16_Witness ==
    /\ last.op = "put"
    /\ ~last.present
    /\ max_size = 2
    /\ Len(cache) = 2
    /\ stats.evictions >= 2

\* C12: get, put and clear are atomic with respect to each other: when no
\* request is in progress the state is one that a serial order of the
\* operations produces (the entry map and the order structure hold the same
\* keys, hits + misses = total_queries), and a get that has found its key in
\* the entry map finds it there until the get itself removes it or returns.
C12_Atomic ==
    /\ (querying.pc = "idle" /\ clearing = "idle" =>
            /\ Keys(cache) = OrderKeys(access_order)
            /\ stats.hits + stats.misses = stats.total_queries)
    /\ (querying.pc \in {"get_98", "get_101", "get_102", "get_108", "get_112"} =>
            QKey \in Keys(cache))

\* C13: when two gets of one key have both returned None and two puts of that
\* key follow, the first put stores its answer and the second is absorbed: the
\* same keys are stored, one entry has the key, that entry differs from before
\* in access_count and last_access only, every other entry, the order
\* structure and the counters are as before, and the size is within max_size.
C13_SecondPutAbsorbed ==
    /\ [][scen.phase = "MM" /\ scen'.phase = "MMP" =>
            /\ scen.a \in Keys(cache')
            /\ Entry(cache', scen.a).value = last'.llm_answer
            /\ Entry(cache', scen.a).original_answer = last'.original_answer]_vars
    /\ [][scen.phase = "MMP" /\ scen'.phase = "MMPP" =>
            /\ Len(cache') = Len(cache)
            /\ Cardinality({i \in 1..Len(cache') : cache'[i].key = scen.a}) = 1
            /\ \A i \in 1..Len(cache) :
                   cache'[i] = IF cache[i].key = scen.a
                               THEN [cache[i] EXCEPT !.access_count = @ + 1,
                                                     !.last_access = now]
                               ELSE cache[i]
            /\ access_order' = access_order
            /\ stats' = stats
            /\ Len(cache') <= max_size]_vars

\* the second put, with another answer, has just been absorbed in a full store
\* where the first put had evicted an entry
C13_Witness ==
    /\ scen.phase = "MMPP"
    /\ Entry(cache, scen.a).value # last.llm_answer
    /\ Len(cache) = max_size
    /\ stats.evictions >= 1

\* C14: a cache whose policy is none of LRU, LFU, FIFO is never constructed, so
\* none serves a get or a put.
C14_UnknownPolicyRejected == policy \notin Policies => last.op \notin {"get", "put"}

\* C17 as stated: with ttl = 0 no get returns an entry.
C17_NoHitWithZeroTtl == ttl = 0 /\ last.op = "get" => ret.kind # "dict"

\* C17: with ttl = 0, a get on a stored key at a clock value later than the
\* entry's timestamp returns None and removes the key from the entry map and
\* from the order structure; a get returns an entry only at the clock value
\* of its insertion.
C17_ZeroTtl ==
    /\ [][(/\ ttl = 0
           /\ last'.op = "get"
           /\ last'.present
           /\ now > Entry(cache, generate_key(last'.title, last'.content)).timestamp)
          => (/\ ret' = None
              /\ generate_key(last'.title, last'.content) \notin Keys(cache')
              /\ generate_key(last'.title, last'.content)
                     \notin OrderKeys(access_order'))]_vars
    /\ [](ttl = 0 /\ last.op = "get" /\ ret.kind = "dict" => ret.cached_at = now)

\* with ttl = 0 a get has just removed an entry one clock unit after its insertion
C17_Witness ==
    /\ ttl = 0
    /\ last.op = "get"
    /\ last.present
    /\ ret = None
    /\ now = 1

\* C18: no get and no put raises for a key (or an entry) that is not there,
\* whatever other request is in progress.
C18_NeverRaises ==
    querying.pc = "except" => querying.exc \notin {"KeyError", "StopIteration", "ValueError"}

C20_EmptyQueryRejected ==
    last.op = "query" /\ llm_query(last.title, last.content) = <<>> => called = <<>>

\* The requests that the call recorded in `last` can have been
RequestsOf(l) == {r \in Requests : r[2] = l.title /\ r[3] = l.content}

\* C21: a request that misses and whose call to the answer generator or to the
\* scorer fails ends with an error response after that one call, makes no put,
\* leaves the store as the get left it, and leaves no entry for its key.
C21_FailedCallInsertsNothing ==
    [][\A r \in RequestsOf(last'), outcome \in RepeatOutcomes \ {"a1"} :
          LET g == get(cache, access_order, r[2], r[3]) IN
          last'.op = "query" /\ g.ret.kind = "None" /\ HandleQuery(r, outcome, TRUE)
          => /\ ret'.code = 500
             /\ ret'.status = "error"
             /\ called' = <<"get">>
             /\ cache' = g.cache
             /\ access_order' = g.access_order
             /\ generate_key(r[2], r[3]) \notin Keys(cache')
             /\ storage' = storage]_vars

\* a request with a text to ask has failed on a store that holds another entry;
\* its key was in the store, expired, when it arrived
C21_Witness ==
    /\ last.op = "query"
    /\ ~invalid_query(llm_query(last.title, last.content))
    /\ ret.code = 500
    /\ last.present
    /\ Len(cache) = 1

\* C22: the evictions counter moves, and a put removes a key, only in a put of
\* a new key into a store that holds max_size entries; a put of a new key into
\* a store with fewer entries and a put of a present key leave the counters and
\* the stored keys alone, and a get leaves the evictions counter alone and
\* removes at most its own key, and that only when the entry has expired.
C22_EvictionOnlyWhenFull ==
    [][/\ (stats'.evictions # stats.evictions \/ (last'.op = "put" /\ Removed # {})
           => last'.op = "put" /\ ~last'.present /\ Len(cache) = max_size)
       /\ (last'.op = "put" /\ (last'.present \/ Len(cache) < max_size)
           => stats' = stats /\ Removed = {})
       /\ (last'.op = "get"
           => /\ stats' = stats
              /\ Removed \subseteq {generate_key(last'.title, last'.content)}
              /\ \A k \in Removed : is_expired(Entry(cache, k)))]_vars

\* a new key has gone into a store of capacity 2 that held one older entry: no
\* eviction has been counted and both entries are there
C22_Witness ==
    /\ last.op = "put"
    /\ ~last.present
    /\ max_size = 2
    /\ Len(cache) = 2
    /\ stats.evictions = 0
    /\ cache[1].timestamp < cache[2].timestamp

\* The entry that the policy designates in a non-empty store (C5, C6, C7): the
\* front of the order structure under LRU and FIFO, the first entry of smallest
\* access_count under LFU
PolicyVictim == IF policy = "LFU" THEN LFUKey(cache) ELSE Head(access_order)

\* C23: expiry is lazy.  The passing of time removes nothing, so an entry older
\* than ttl stays in the entry map and in its length; a key leaves the store
\* only in a get of that key, as the victim that the policy picks for a put
\* (picked without regard to age), or in a clear, which empties the store
\* whatever the ages; and a put of a present key leaves the entry's timestamp,
\* and so its expiry, as they were.
C23_LazyExpiry ==
    [][/\ (last'.op = "tick" => cache' = cache /\ access_order' = access_order)
       /\ \A k \in Removed :
             \/ last'.op = "get" /\ k = generate_key(last'.title, last'.content)
             \/ last'.op = "put" /\ Evicting /\ k = PolicyVictim
             \/ last'.op = "clear"
       /\ (last'.op = "put" /\ last'.present
           => LET key == generate_key(last'.title, last'.content) IN
              /\ key \in Keys(cache')
              /\ Entry(cache', key).timestamp = Entry(cache, key).timestamp
              /\ Len(cache') = Len(cache))]_vars

\* under LFU a put has just evicted the entry of count 1 from a full store
\* whose other entry, of count 2, had expired before that put and has stayed
C23_Witness ==
    /\ policy = "LFU"
    /\ last.op = "put"
    /\ ~last.present
    /\ stats.evictions = 1
    /\ Len(cache) = 2
    /\ is_expired(cache[1])
    /\ cache[1].access_count = 2
    /\ ops = 5

\* C25: under LFU, when several stored entries have the smallest access_count,
\* the put that evicts removes the one of them that comes first in the
\* iteration order of the entry map, which is the one of them that entered the
\* store earliest.
C25_LFUTieBreak ==
    [][policy = "LFU" /\ Evicting =>
          LET least == {k \in Keys(cache) :
                           \A m \in Keys(cache) :
                               Entry(cache, k).access_count
                                   <= Entry(cache, m).access_count}
              i == CHOOSE i \in 1..Len(inserted) :
                       /\ inserted[i] \in least
                       /\ \A j \in 1..(i - 1) : inserted[j] \notin least
              n == CHOOSE n \in 1..Len(cache) :
                       /\ cache[n].key \in least
                       /\ \A j \in 1..(n - 1) : cache[j].key \notin least
          IN  /\ Removed = {inserted[i]}
              /\ cache[n].key = inserted[i]]_vars

\* three puts of three keys into a store of capacity 2: the two stored entries
\* both had access_count 1 when the third put evicted one of them
C25_Witness ==
    /\ policy = "LFU"
    /\ last.op = "put"
    /\ stats.evictions = 1
    /\ Len(cache) = 2
    /\ ops = 3

\* C24: a request that hits adds 1 to the access_count of the entry it looked
\* up and 1 to hits; get returned, and the response carries, the incremented
\* access_count and the entry's answer (get also returned the reference answer
\* and the creation time); the entry's answer, reference and creation time,
\* every other entry, the stored keys, misses and evictions stay as they were.
C24_HitFrame ==
    [][last'.op = "query" /\ ret'.status = "hit" =>
          LET key == generate_key(last'.title, last'.content)
              g == get(cache, access_order, last'.title, last'.content)
              old == Entry(cache, key)
              new == Entry(cache', key)
          IN  /\ key \in Keys(cache)
              /\ new = [old EXCEPT !.access_count = old.access_count + 1,
                                   !.last_access = now]
              /\ stats' = [stats EXCEPT !.hits = stats.hits + 1,
                                        !.total_queries = stats.total_queries + 1]
              /\ g.ret = [kind |-> "dict", llm_answer |-> old.value,
                          original_answer |-> old.original_answer,
                          access_count |-> old.access_count + 1,
                          cached_at |-> old.timestamp]
              /\ ret'.llm_answer = old.value
              /\ ret'.access_count = old.access_count + 1
              /\ Len(cache') = Len(cache)
              /\ \A i \in 1..Len(cache) :
                    /\ cache'[i].key = cache[i].key
                    /\ cache[i].key # key => cache'[i] = cache[i]]_vars

\* a request has hit an entry for the second time, next to another entry
C24_Witness ==
    /\ last.op = "query"
    /\ ret.status = "hit"
    /\ ret.access_count = 3
    /\ Len(cache) = 2

\* C26: with /clear running beside a /query request, hits + misses never
\* exceeds total_queries, and when no request is in progress the two are equal.
C26_CountersUnderClear ==
    /\ stats.hits + stats.misses <= stats.total_queries
    /\ (querying.pc = "idle" /\ clearing = "idle"
        => stats.hits + stats.misses = stats.total_queries)

\* C28: under LRU the keys of the order structure are in the order of their
\* entries' last_access, oldest first, and an eviction removes an entry whose
\* last_access is the oldest in the store.
C28_OrderByLastAccess ==
    /\ [](policy = "LRU" =>
            \A i, j \in 1..Len(access_order) :
                i < j => Entry(cache, access_order[i]).last_access
                             <= Entry(cache, access_order[j]).last_access)
    /\ [][policy = "LRU" /\ Evicting =>
            \A v \in Removed, k \in Keys(cache) :
                Entry(cache, v).last_access <= Entry(cache, k).last_access]_vars

\* C29: a request that misses and whose title and content give an empty query,
\* or the text 'nan', is answered with status code 400.
C29_InvalidQueryIs400 ==
    /\ last.op = "query"
    /\ invalid_query(llm_query(last.title, last.content))
    /\ "get" \in {called[i] : i \in 1..Len(called)}
    /\ ret.status # "hit"
    => ret.code = 400

\* C27: size() = insertions of a new key - evictions - removals by expiry, all
\* counted since the last clear.  Stated step by step: the service starts, and
\* every /clear ends, with size 0 and evictions 0; a request changes the size by
\* (1 if its put inserted a new key) - (what it added to evictions) - (1 if its
\* get removed an expired entry); a request whose get removed an expired entry
\* adds nothing to evictions; a clock tick changes neither.  A request calls
\* put only after its get returned None, so its put inserts a new key; its get
\* removed an expired entry when the key was stored and the request did not hit.
C27_SizeAccounting ==
    /\ [](last.op \in {"init", "clear_cache"} => Len(cache) = 0 /\ stats.evictions = 0)
    /\ [][last'.op = "query" =>
            LET expired == last'.present /\ ret'.status # "hit"
                new == called' = <<"get", "put">>
            IN  /\ Len(cache') = Len(cache) + (IF new THEN 1 ELSE 0)
                                   - (stats'.evictions - stats.evictions)
                                   - (IF expired THEN 1 ELSE 0)
                /\ stats'.evictions >= stats.evictions
                /\ expired => stats'.evictions = stats.evictions]_vars
    /\ [][last'.op = "tick" =>
            Len(cache') = Len(cache) /\ stats'.evictions = stats.evictions]_vars

\* after an eviction, a request has found its entry expired, removed it and put
\* a new one
C27_Witness ==
    /\ last.op = "query"
    /\ last.present
    /\ ret.status = "miss"
    /\ stats.evictions >= 1

\* The record of the key of the request that `last` holds, if its latest
\* earlier request was answered "miss"
Waiting(l) == {a \in answered : a.key = generate_key(l.title, l.content)}

\* C30 as stated: a request answered "miss" leaves an entry for its key, and the
\* next request for that key, made within ttl and before max_size other new
\* keys were inserted, is answered "hit" with access_count 2.
C30_HitAfterMiss ==
    /\ [](last.op = "query" /\ ret.status = "miss" => LastKey \in Keys(cache))
    /\ [][last'.op = "query" =>
            \A a \in Waiting(last') :
                now - a.at <= ttl /\ a.others < max_size
                => ret'.status = "hit" /\ ret'.access_count = 2]_vars

\* C30, amended: a request answered "miss" leaves an entry for its key, created
\* at that moment with access_count 1; the next request for that key is
\* answered "hit" with access_count 2 whenever the entry is still stored and
\* not older than ttl; the entry is still stored when no new key was inserted
\* in between, and under FIFO when fewer than max_size new keys were.
C30_HitWhileStored ==
    /\ [](last.op = "query" /\ ret.status = "miss" =>
            /\ LastKey \in Keys(cache)
            /\ Entry(cache, LastKey).access_count = 1
            /\ Entry(cache, LastKey).timestamp = now)
    /\ [][last'.op = "query" =>
            \A a \in Waiting(last') :
                /\ a.key \in Keys(cache) /\ now - a.at <= ttl
                   => ret'.status = "hit" /\ ret'.access_count = 2
                /\ a.others = 0 \/ (policy = "FIFO" /\ a.others < max_size)
                   => a.key \in Keys(cache)
                /\ a.key \in Keys(cache)
                   => /\ Entry(cache, a.key).timestamp = a.at
                      /\ Entry(cache, a.key).access_count = 1]_vars

\* a request has hit, for the first time, an entry that a request answered
\* "miss" had created at an earlier clock value, another key having been
\* inserted in between
C30_Witness ==
    /\ last.op = "query"
    /\ ret.status = "hit"
    /\ ret.access_count = 2
    /\ Len(cache) = 2
    /\ cache[1].key = LastKey
    /\ cache[1].timestamp < now
    /\ answered # {}

\* C32: the access_count of a row of the store never decreases, whatever
\* requests the cache service handles.
C32_StoredCountNeverDecreases ==
    [][\A i \in 1..Len(storage) :
          /\ i <= Len(storage')
          /\ storage'[i].access_count >= storage[i].access_count]_vars

\* C31: with writes for one question_id made at the same time, the table never
\* holds two rows for a question_id, and when no write is in progress the row
\* of a question_id written n times has access_count n.
C31_OneRowNoLostIncrement ==
    \A q \in QuestionIds :
        /\ Len(RowsOf(storage, q)) <= 1
        /\ (\A w \in Workers : storing[w].pc = "idle") /\ written[q] > 0
           => Head(RowsOf(storage, q)).access_count = written[q]

\* C33: every iteration of the traffic generator's loop adds exactly 1 to
\* total_sent, so total_sent is the number of iterations made, it equals
\* cache_hits + cache_misses + failed, and it is at most TOTAL_QUERIES.
C33_TotalSent ==
    /\ traffic.total_sent = traffic.i
    /\ traffic.total_sent = traffic.cache_hits + traffic.cache_misses + traffic.failed
    /\ traffic.total_sent <= TOTAL_QUERIES

====
